---- MODULE Spec2Model ----
(***************************************************************************)
(* TimeLeapMemo: forgetful drawing canvas with a scrubbable virtual time.  *)
(*                                                                         *)
(* Units.  Times are integers in milliseconds (0.033 s = 33, one slider    *)
(* step = 3.0 s = 3000).  Alpha, density, the controller's target,         *)
(* hysteresis, gain and lambda factor are integers in thousandths          *)
(* (1.0 = 1000).  Points are <<x, y, pressure>>.                           *)
(*                                                                         *)
(* Display-only widget state (label text, slider knob position, highlight, *)
(* the timeline widget's cursor) is not part of the state.                 *)
(***************************************************************************)
EXTENDS Integers, Sequences, FiniteSets, TLC

VARIABLES
    strokes,            \* GLCanvas.strokes: sequence of Stroke records
    current_points,     \* GLCanvas.current_points
    virtual_time,       \* GLCanvas.virtual_time
    max_virtual_time,   \* GLCanvas.max_virtual_time
    last_virtual_time,  \* GLCanvas.last_virtual_time
    lambdas_factor,     \* GLCanvas.lambdas_factor
    lambdas_twin,       \* lambdas_factor of a second run fed the same densities
    target_density,     \* GLCanvas.target_density
    hysteresis,         \* GLCanvas.hysteresis
    lambda_k,           \* GLCanvas.lambda_k
    timer_active,       \* GLCanvas.timer is running (free-hand drawing clock)
    play_timer_active,  \* MainWindow.play_timer is running
    play_checked,       \* MainWindow.play_button.isChecked()
    chaos_pad_mode,     \* MainWindow.chaos_pad_mode / TimelineWidget.chaos_pad_mode
    left_down,          \* the left mouse button is held on the canvas
    stroke_times,       \* TimelineWidget.stroke_times
    segment_indices,    \* TimelineWidget.segment_indices
    segment_ys,         \* TimelineWidget.segment_ys
    last_op,            \* history: name of the handler that ran last
    last_arg            \* history: what that handler was given / what it saw

vars == <<strokes, current_points, virtual_time, max_virtual_time,
          last_virtual_time, lambdas_factor, lambdas_twin, target_density, hysteresis,
          lambda_k, timer_active, play_timer_active, play_checked,
          chaos_pad_mode, left_down, stroke_times, segment_indices,
          segment_ys, last_op, last_arg>>

canvas_vars == <<strokes, current_points, virtual_time, max_virtual_time,
                 last_virtual_time, lambdas_factor, lambdas_twin, timer_active, left_down>>
ctl_params == <<target_density, hysteresis, lambda_k>>
window_vars == <<play_timer_active, play_checked, chaos_pad_mode>>
timeline_vars == <<stroke_times, segment_indices, segment_ys>>

(***************************************************************************)
(* Bounds of the model                                                     *)
(***************************************************************************)
MaxStrokes == 1     \* no new stroke is started once the store holds this many
MaxDrawn == 2       \* the same, in the scenarios without frames
MaxPoints == 2      \* points accumulated in one stroke
MaxTicks == 1       \* timer ticks taken past a slider grid position
MaxSegLen == 5      \* length of the creation-time lists given to calc_segments

(***************************************************************************)
(* Program constants                                                       *)
(***************************************************************************)
ONE == 1000                 \* 1.0 in thousandths
TICK == 33                  \* virtual_time += 0.033
TIMELINE_MAX == 300000      \* MainWindow.timeline_max = 300.0
SLIDER_MAX == 100           \* timeline_slider.setRange(0, 100)
STROKE_WIDTH == 6           \* Stroke(..., 6.0, ...)
LAMBDA_BASE == 100          \* lambda_base = 0.1
TARGET_DENSITY == 50        \* target_density = 0.05
HYSTERESIS == 20            \* hysteresis = 0.02
LAMBDA_K == 3000            \* lambda_k = 3.0
FACTOR_MIN == 100           \* max(0.1, ...)
FACTOR_MAX == 4000          \* min(4.0, ...)
ALPHA_FLOOR == 1            \* base_alpha < 0.001
LINE_HEIGHT == 12           \* TimelineWidget.line_height
STROKE_COLOR == <<0, 0, 0>>

(***************************************************************************)
(* Inputs                                                                  *)
(***************************************************************************)
SLIDER_STEP == TIMELINE_MAX \div SLIDER_MAX

NoArg == [kind |-> "none"]

Max2(a, b) == IF a >= b THEN a ELSE b
Min2(a, b) == IF a <= b THEN a ELSE b
Abs(a) == IF a < 0 THEN -a ELSE a
SetMax(S) == CHOOSE m \in S : \A x \in S : x <= m
Range(f) == {f[i] : i \in DOMAIN f}

(***************************************************************************)
(* Stroke dataclass                                                        *)
(***************************************************************************)
Stroke(points, width, color, time_created, base_alpha) ==
    [points |-> points, width |-> width, color |-> color,
     time_created |-> time_created, base_alpha |-> base_alpha,
     is_visible |-> TRUE]

(***************************************************************************)
(* math.exp(-x) in fixed point.  x is in thousandths, the result in         *)
(* millionths.  exp(-x) = exp(-n) * exp(-f) with n the integer part (a     *)
(* table) and f the fractional part (an 8-term series in Horner form).     *)
(* Below exp(-8) the result is 0: that is under the resolution of alpha.   *)
(***************************************************************************)
ExpTable == <<1000000, 367879, 135335, 49787, 18316, 6738, 2479, 912>>

ExpFrac(f) ==
    LET M  == 1000000
        h7 == M - (f * M)  \div 7000
        h6 == M - (f * h7) \div 6000
        h5 == M - (f * h6) \div 5000
        h4 == M - (f * h5) \div 4000
        h3 == M - (f * h4) \div 3000
        h2 == M - (f * h3) \div 2000
    IN  M - (f * h2) \div 1000

ExpNeg(x) ==
    LET n == x \div 1000
        e == ExpFrac(x % 1000)
    IN  IF n >= Len(ExpTable) THEN 0
        ELSE LET T == ExpTable[n + 1]
             IN  (T * (e \div 1000) + (T * (e % 1000)) \div 1000) \div 1000

(***************************************************************************)
(* GLCanvas.__init__ / MainWindow.__init__ / TimelineWidget.__init__       *)
(***************************************************************************)
InitCanvas ==
    /\ strokes = <<>>
    /\ current_points = <<>>
    /\ virtual_time = 0
    /\ max_virtual_time = 0
    /\ last_virtual_time = 0
    /\ timer_active = FALSE
    /\ left_down = FALSE

InitWindow ==
    /\ play_timer_active = FALSE
    /\ play_checked = FALSE
    /\ chaos_pad_mode = FALSE

InitTimeline ==
    /\ stroke_times = <<>>
    /\ segment_indices = <<>>
    /\ segment_ys = <<>>

Init ==
    /\ InitCanvas
    /\ InitWindow
    /\ InitTimeline
    /\ lambdas_factor = ONE
    /\ lambdas_twin = ONE
    /\ target_density = TARGET_DENSITY
    /\ hysteresis = HYSTERESIS
    /\ lambda_k = LAMBDA_K
    /\ last_op = "init"
    /\ last_arg = NoArg

(***************************************************************************)
(* GLCanvas mouse handlers and the free-hand drawing clock                 *)
(***************************************************************************)
\* stop_play_callback is None after construction and is never assigned, so
\* the press handler does not touch the playback timer.
mousePressEvent(p) ==
    /\ ~left_down
    /\ current_points' = <<p>>
    /\ timer_active' = TRUE
    /\ left_down' = TRUE
    /\ last_op' = "mousePressEvent"
    /\ last_arg' = NoArg
    /\ UNCHANGED <<strokes, virtual_time, max_virtual_time, last_virtual_time,
                   lambdas_factor, lambdas_twin>>
    /\ UNCHANGED <<ctl_params, window_vars, timeline_vars>>

mouseMoveEvent(p) ==
    /\ left_down
    /\ current_points' = Append(current_points, p)
    /\ last_op' = "mouseMoveEvent"
    /\ last_arg' = NoArg
    /\ UNCHANGED <<strokes, virtual_time, max_virtual_time, last_virtual_time,
                   lambdas_factor, lambdas_twin, timer_active, left_down>>
    /\ UNCHANGED <<ctl_params, window_vars, timeline_vars>>

\* Mutant: the stroke is stamped with the time of the last frame.
CommittedStrokeAtFrame ==
    Stroke(current_points, STROKE_WIDTH, STROKE_COLOR, last_virtual_time, ONE)

\* The committed stroke: Stroke(current_points.copy(), 6.0, (0, 0, 0), virtual_time)
CommittedStroke ==
    Stroke(current_points, STROKE_WIDTH, STROKE_COLOR, virtual_time, ONE)

mouseReleaseEvent ==
    /\ left_down
    /\ left_down' = FALSE
    /\ IF Len(current_points) >= 2
       THEN /\ strokes' = Append(strokes, CommittedStroke)
            /\ current_points' = <<>>
            /\ max_virtual_time' = IF virtual_time > max_virtual_time
                                   THEN virtual_time ELSE max_virtual_time
            /\ timer_active' = FALSE
       ELSE UNCHANGED <<strokes, current_points, max_virtual_time, timer_active>>
    /\ last_op' = "mouseReleaseEvent"
    /\ last_arg' = [kind |-> "release", npoints |-> Len(current_points)]
    /\ UNCHANGED <<virtual_time, last_virtual_time, lambdas_factor, lambdas_twin>>
    /\ UNCHANGED <<ctl_params, window_vars, timeline_vars>>

advance_virtual_time ==
    /\ timer_active
    /\ virtual_time' = virtual_time + TICK
    /\ last_op' = "advance_virtual_time"
    /\ last_arg' = NoArg
    /\ UNCHANGED <<strokes, current_points, max_virtual_time, last_virtual_time,
                   lambdas_factor, lambdas_twin, timer_active, left_down>>
    /\ UNCHANGED <<ctl_params, window_vars, timeline_vars>>

\* Mutant: the high-water mark survives the clear.
clear_all_keeps_mark ==
    /\ strokes' = <<>>
    /\ current_points' = <<>>
    /\ virtual_time' = 0
    /\ last_virtual_time' = 0
    /\ UNCHANGED <<max_virtual_time, lambdas_factor, lambdas_twin, timer_active, left_down>>

clear_all ==
    /\ strokes' = <<>>
    /\ current_points' = <<>>
    /\ virtual_time' = 0
    /\ max_virtual_time' = 0
    /\ last_virtual_time' = 0
    /\ UNCHANGED <<lambdas_factor, lambdas_twin, timer_active, left_down>>

(***************************************************************************)
(* GLCanvas.render_density_map and the frame (GLCanvas.paintEvent)         *)
(***************************************************************************)
\* A stroke contributes geometry when it passes the pre-filter and has a
\* segment of non-zero length.
HasSegment(s) ==
    \E i \in 1..(Len(s.points) - 1) :
        s.points[i][1] /= s.points[i + 1][1] \/ s.points[i][2] /= s.points[i + 1][2]

\* Mutant: strokes created after the frame's time are rasterized too.
PassesFilterAnyTime(s, now) ==
    /\ s.is_visible
    /\ Len(s.points) >= 2

PassesFilter(s, now) ==
    /\ s.is_visible
    /\ s.time_created <= now
    /\ Len(s.points) >= 2

HasVerts(strs, now) ==
    \E i \in DOMAIN strs : PassesFilter(strs[i], now) /\ HasSegment(strs[i])

\* global_density: 0.0 when render_density_map returns None, otherwise the
\* mean of the clipped coverage channel read back from the texture (sample).
GlobalDensity(strs, now, sample) ==
    IF HasVerts(strs, now) THEN Max2(0, Min2(ONE, sample)) ELSE 0

\* Mutant: the clamp is missing.
LambdaFactorUnclamped(density, target, hyst, k) ==
    LET error == density - target
        gain  == IF Abs(error) < hyst THEN 0 ELSE error
    IN  ONE + (k * gain) \div ONE

\* Mutant: there is no dead zone.
LambdaFactorNoDeadZone(density, target, hyst, k) ==
    Max2(FACTOR_MIN, Min2(FACTOR_MAX, ONE + (k * (density - target)) \div ONE))

\* error / gain / lambdas_factor with the clamp to [0.1, 4.0]
LambdaFactor(density, target, hyst, k) ==
    LET error == density - target
        gain  == IF Abs(error) < hyst THEN 0 ELSE error
        raw   == ONE + (k * gain) \div ONE
    IN  Max2(FACTOR_MIN, Min2(FACTOR_MAX, raw))

\* Mutant: the correction is accumulated on the previous factor.
FrameFactorIntegral(prev, density, target, hyst, k) ==
    Max2(FACTOR_MIN,
         Min2(FACTOR_MAX, prev + LambdaFactorUnclamped(density, target, hyst, k) - ONE))

\* The factor a frame stores, given the factor the previous frame stored:
\* lambdas_factor is assigned from gain alone, its old value is not read.
FrameFactor(prev, density, target, hyst, k) ==
    LambdaFactor(density, target, hyst, k)

\* Mutant: a rewind is not noticed.
ResurrectNever(strs, now, last) == strs

\* Mutant: every frame clears the retired flags, rewind or not.
ResurrectAlways(strs, now, last) ==
    [i \in DOMAIN strs |-> [strs[i] EXCEPT !.is_visible = TRUE]]

\* Rewind detection: every stroke becomes visible again.
Resurrect(strs, now, last) ==
    IF now < last
    THEN [i \in DOMAIN strs |-> [strs[i] EXCEPT !.is_visible = TRUE]]
    ELSE strs

\* Mutant: the sign of the exponent is lost, alpha grows with age.
DecayAlphaGrowing(factor, age) ==
    LET lam == (LAMBDA_BASE * factor) \div ONE
    IN  ONE - ExpNeg((lam * age) \div 1000) \div 1000

\* lam = lambda_base * lambdas_factor (thousandths); exp(-lam * age) in
\* thousandths.
DecayAlpha(factor, age) ==
    LET lam == (LAMBDA_BASE * factor) \div ONE
    IN  ExpNeg((lam * age) \div 1000) \div 1000

\* Mutant: a stroke of age 0 is treated as not yet created.
DecayStrokeLate(s, now, factor) ==
    IF ~s.is_visible THEN s
    ELSE IF now - s.time_created <= 0 THEN [s EXCEPT !.base_alpha = 0]
    ELSE LET a == DecayAlpha(factor, now - s.time_created)
         IN  IF a < ALPHA_FLOOR
             THEN [s EXCEPT !.base_alpha = 0, !.is_visible = FALSE]
             ELSE [s EXCEPT !.base_alpha = a]

\* Mutant: a stroke that is not yet created is retired.
DecayStrokeRetiresFuture(s, now, factor) ==
    IF ~s.is_visible THEN s
    ELSE IF now - s.time_created < 0
         THEN [s EXCEPT !.base_alpha = 0, !.is_visible = FALSE]
    ELSE LET a == DecayAlpha(factor, now - s.time_created)
         IN  IF a < ALPHA_FLOOR
             THEN [s EXCEPT !.base_alpha = 0, !.is_visible = FALSE]
             ELSE [s EXCEPT !.base_alpha = a]

\* Mutant: a retired stroke gives up its geometry.
DecayStrokeDropsPoints(s, now, factor) ==
    IF ~s.is_visible THEN s
    ELSE IF now - s.time_created < 0 THEN [s EXCEPT !.base_alpha = 0]
    ELSE LET a == DecayAlpha(factor, now - s.time_created)
         IN  IF a < ALPHA_FLOOR
             THEN [s EXCEPT !.base_alpha = 0, !.is_visible = FALSE,
                            !.points = <<>>]
             ELSE [s EXCEPT !.base_alpha = a]

\* Mutant: the decay loop recomputes a retired stroke like any other.
DecayStrokeStateless(s, now, factor) ==
    IF now - s.time_created < 0
    THEN [s EXCEPT !.base_alpha = 0, !.is_visible = TRUE]
    ELSE LET a == DecayAlpha(factor, now - s.time_created)
         IN  IF a < ALPHA_FLOOR
             THEN [s EXCEPT !.base_alpha = 0, !.is_visible = FALSE]
             ELSE [s EXCEPT !.base_alpha = a, !.is_visible = TRUE]

\* One stroke's pass through the decay loop.
DecayStroke(s, now, factor) ==
    IF ~s.is_visible THEN s
    ELSE IF now - s.time_created < 0 THEN [s EXCEPT !.base_alpha = 0]
    ELSE LET a == DecayAlpha(factor, now - s.time_created)
         IN  IF a < ALPHA_FLOOR
             THEN [s EXCEPT !.base_alpha = 0, !.is_visible = FALSE]
             ELSE [s EXCEPT !.base_alpha = a]

RetiredSet(strs) == {i \in DOMAIN strs : ~strs[i].is_visible}

paintEvent(sample) ==
    LET woken   == Resurrect(strokes, virtual_time, last_virtual_time)
        density == GlobalDensity(woken, virtual_time, sample)
        factor  == FrameFactor(lambdas_factor, density, target_density,
                               hysteresis, lambda_k)
    IN  /\ lambdas_factor' = factor
        /\ lambdas_twin' = FrameFactor(lambdas_twin, density, target_density,
                                       hysteresis, lambda_k)
        /\ strokes' = [i \in DOMAIN woken |-> DecayStroke(woken[i], virtual_time, factor)]
        /\ last_virtual_time' = virtual_time
        /\ last_op' = "paintEvent"
        /\ last_arg' = [kind |-> "paint", density |-> density,
                        retired |-> RetiredSet(strokes)]
        /\ UNCHANGED <<current_points, virtual_time, max_virtual_time,
                       timer_active, left_down>>
        /\ UNCHANGED <<ctl_params, window_vars, timeline_vars>>

(***************************************************************************)
(* TimelineWidget.calc_segments / set_stroke_times                         *)
(***************************************************************************)
\* Mutant: an equal time starts a new segment too.
RECURSIVE CalcLoopEqualSplits(_, _, _, _, _, _, _)
CalcLoopEqualSplits(times, i, segs, ys, indices, y, prev_time) ==
    IF i >= Len(times)
    THEN [indices |-> Append(segs, indices), ys |-> Append(ys, y)]
    ELSE LET t == times[i + 1]
         IN  IF t <= prev_time
             THEN CalcLoopEqualSplits(times, i + 1, Append(segs, indices),
                                      Append(ys, y), <<i>>, y + LINE_HEIGHT + 2, t)
             ELSE CalcLoopEqualSplits(times, i + 1, segs, ys,
                                      Append(indices, i), y, t)

\* The loop "for i in range(1, len(stroke_times))" with its locals; indices
\* are the code's 0-based stroke indices.
RECURSIVE CalcLoop(_, _, _, _, _, _, _)
CalcLoop(times, i, segs, ys, indices, y, prev_time) ==
    IF i >= Len(times)
    THEN [indices |-> Append(segs, indices), ys |-> Append(ys, y)]
    ELSE LET t == times[i + 1]
         IN  IF t < prev_time
             THEN CalcLoop(times, i + 1, Append(segs, indices), Append(ys, y),
                           <<i>>, y + LINE_HEIGHT + 2, t)
             ELSE CalcLoop(times, i + 1, segs, ys, Append(indices, i), y, t)

calc_segments(times) ==
    IF times = <<>>
    THEN [indices |-> <<>>, ys |-> <<>>]
    ELSE CalcLoop(times, 1, <<>>, <<>>, <<0>>, 0, times[1])

set_stroke_times(times) ==
    /\ stroke_times' = times
    /\ segment_indices' = calc_segments(times).indices
    /\ segment_ys' = calc_segments(times).ys

get_stroke_times(strs) == [i \in DOMAIN strs |-> strs[i].time_created]

\* MainWindow.update_timeline_history, for the stroke list the canvas holds
\* when it is called.
update_timeline_history(strs) == set_stroke_times(get_stroke_times(strs))

(***************************************************************************)
(* MainWindow handlers                                                     *)
(***************************************************************************)
on_timeline_slider(v) ==
    /\ ~chaos_pad_mode                 \* the slider is disabled in chaos-pad mode
    /\ virtual_time' = (v * TIMELINE_MAX) \div SLIDER_MAX
    /\ update_timeline_history(strokes)
    /\ last_op' = "on_timeline_slider"
    /\ last_arg' = NoArg
    /\ UNCHANGED <<strokes, current_points, max_virtual_time, last_virtual_time,
                   lambdas_factor, lambdas_twin, timer_active, left_down>>
    /\ UNCHANGED <<ctl_params, window_vars>>

on_play_clicked ==
    /\ play_checked' = ~play_checked
    /\ play_timer_active' = ~play_checked
    /\ last_op' = "on_play_clicked"
    /\ last_arg' = NoArg
    /\ UNCHANGED <<canvas_vars, ctl_params, chaos_pad_mode, timeline_vars>>

\* Mutant: the last tick stops the timer but keeps the overshooting time.
advance_timeline_past ==
    /\ play_timer_active
    /\ LET t == virtual_time + TICK
       IN  IF t >= max_virtual_time
           THEN /\ virtual_time' = t
                /\ play_checked' = FALSE
                /\ play_timer_active' = FALSE
           ELSE /\ virtual_time' = t
                /\ UNCHANGED <<play_checked, play_timer_active>>
    /\ last_op' = "advance_timeline"
    /\ last_arg' = NoArg
    /\ UNCHANGED <<strokes, current_points, max_virtual_time, last_virtual_time,
                   lambdas_factor, lambdas_twin, timer_active, left_down>>
    /\ UNCHANGED <<ctl_params, chaos_pad_mode, timeline_vars>>

advance_timeline ==
    /\ play_timer_active
    /\ LET t == virtual_time + TICK
       IN  IF t >= max_virtual_time
           THEN /\ virtual_time' = max_virtual_time
                /\ play_checked' = FALSE
                /\ play_timer_active' = FALSE
           ELSE /\ virtual_time' = t
                /\ UNCHANGED <<play_checked, play_timer_active>>
    /\ last_op' = "advance_timeline"
    /\ last_arg' = NoArg
    /\ UNCHANGED <<strokes, current_points, max_virtual_time, last_virtual_time,
                   lambdas_factor, lambdas_twin, timer_active, left_down>>
    /\ UNCHANGED <<ctl_params, chaos_pad_mode, timeline_vars>>

\* Mutant: jump-to-now only ever moves forward.
go_to_now_forward ==
    /\ virtual_time' = Max2(virtual_time, max_virtual_time)
    /\ update_timeline_history(strokes)
    /\ UNCHANGED <<strokes, current_points, max_virtual_time, last_virtual_time,
                   lambdas_factor, lambdas_twin, timer_active, left_down>>
    /\ UNCHANGED <<ctl_params, window_vars>>

go_to_now ==
    /\ virtual_time' = max_virtual_time
    /\ update_timeline_history(strokes)
    /\ UNCHANGED <<strokes, current_points, max_virtual_time, last_virtual_time,
                   lambdas_factor, lambdas_twin, timer_active, left_down>>
    /\ UNCHANGED <<ctl_params, window_vars>>

now_button ==
    /\ go_to_now
    /\ last_op' = "go_to_now"
    /\ last_arg' = [kind |-> "now", time_before |-> virtual_time]

Keys == {"C", "N", "B"}

keyPressEvent(key) ==
    /\ last_op' = "keyPressEvent"
    /\ last_arg' = [kind |-> "key", key |-> key, ignored |-> chaos_pad_mode,
                    nstrokes |-> Len(strokes), max_before |-> max_virtual_time]
    /\ IF chaos_pad_mode
       THEN UNCHANGED <<canvas_vars, ctl_params, window_vars, timeline_vars>>
       ELSE CASE key = "C" ->
                   /\ clear_all
                   /\ UNCHANGED <<ctl_params, window_vars, timeline_vars>>
              [] key = "N" ->
                   /\ go_to_now
              [] key = "B" ->
                   /\ chaos_pad_mode' = TRUE
                   /\ UNCHANGED <<canvas_vars, ctl_params, play_timer_active,
                                  play_checked, timeline_vars>>

keyReleaseEvent ==
    /\ chaos_pad_mode' = FALSE
    /\ last_op' = "keyReleaseEvent"
    /\ last_arg' = NoArg
    /\ UNCHANGED <<canvas_vars, ctl_params, play_timer_active, play_checked,
                   timeline_vars>>

(***************************************************************************)
(* TimelineWidget.handle_chaos_pad                                         *)
(***************************************************************************)
handle_chaos_pad(x, w) ==
    /\ chaos_pad_mode
    /\ virtual_time' = IF w > 0 THEN (x * TIMELINE_MAX) \div w ELSE 0
    /\ update_timeline_history(strokes)
    /\ last_op' = "handle_chaos_pad"
    /\ last_arg' = NoArg
    /\ UNCHANGED <<strokes, current_points, max_virtual_time, last_virtual_time,
                   lambdas_factor, lambdas_twin, timer_active, left_down>>
    /\ UNCHANGED <<ctl_params, window_vars>>

(***************************************************************************)
(* Snapshot documents (JSON text).  A document is either unparsable or an  *)
(* object with some of the keys "virtual_time" and "strokes"; each stroke  *)
(* entry is an object with some of the five keys.  A key's value is read   *)
(* only when the key is present.                                           *)
(***************************************************************************)
EntryKeys == {"points", "width", "color", "time_created", "base_alpha"}

JsonEntry(keys, points, width, color, time_created, base_alpha) ==
    [keys |-> keys, points |-> points, width |-> width, color |-> color,
     time_created |-> time_created, base_alpha |-> base_alpha]

JsonDoc(parsable, keys, vt, entries) ==
    [parsable |-> parsable, keys |-> keys, virtual_time |-> vt, strokes |-> entries]

\* Mutant: the strokes are written in time order.
export_sorted_json(vt, strs) ==
    JsonDoc(TRUE, {"virtual_time", "strokes"}, vt,
            SortSeq([i \in DOMAIN strs |->
                        JsonEntry(EntryKeys, strs[i].points, strs[i].width,
                                  strs[i].color, strs[i].time_created,
                                  strs[i].base_alpha)],
                    LAMBDA a, b : a.time_created < b.time_created))

\* GLCanvas.export_strokes_json: json.dumps of virtual_time and, per stroke,
\* points, width, color, time_created, base_alpha (is_visible is not written).
export_strokes_json(vt, strs) ==
    JsonDoc(TRUE, {"virtual_time", "strokes"}, vt,
            [i \in DOMAIN strs |->
                JsonEntry(EntryKeys, strs[i].points, strs[i].width, strs[i].color,
                          strs[i].time_created, strs[i].base_alpha)])

\* data.get("virtual_time", 0.0) / data.get("strokes", [])
DocVirtualTime(doc) == IF "virtual_time" \in doc.keys THEN doc.virtual_time ELSE 0
DocStrokes(doc) == IF "strokes" \in doc.keys THEN doc.strokes ELSE <<>>

\* max([s["time_created"] for s in ...], default=0.0)
MaxCreated(entries) ==
    IF entries = <<>> THEN 0
    ELSE SetMax({entries[i].time_created : i \in DOMAIN entries})

\* Stroke(points=..., width=..., color=..., time_created=...,
\*        base_alpha=d.get("base_alpha", 1.0))
StrokeOfEntry(d) ==
    Stroke(d.points, d.width, d.color, d.time_created,
           IF "base_alpha" \in d.keys THEN d.base_alpha ELSE ONE)

\* max(self.virtual_time, max([...], default=0.0))
ImportedMax(vt, entries) == Max2(vt, MaxCreated(entries))

\* GLCanvas.import_strokes_json, statement by statement.  The result says
\* whether an exception left the method and what the three attributes hold
\* at that point.
import_strokes_json(doc, vt, mvt, strs) ==
    IF ~doc.parsable
    THEN \* json.loads raises
         [raised |-> TRUE, virtual_time |-> vt, max_virtual_time |-> mvt,
          strokes |-> strs]
    ELSE LET entries == DocStrokes(doc)
             vt1 == DocVirtualTime(doc)
         IN  IF \E i \in DOMAIN entries : "time_created" \notin entries[i].keys
             THEN \* KeyError while computing max_virtual_time
                  [raised |-> TRUE, virtual_time |-> vt1,
                   max_virtual_time |-> mvt, strokes |-> strs]
             ELSE LET mvt1 == ImportedMax(vt1, entries)
                  IN  IF \E i \in DOMAIN entries :
                            ~({"points", "width", "color"} \subseteq entries[i].keys)
                      THEN \* KeyError while building the stroke list
                           [raised |-> TRUE, virtual_time |-> vt1,
                            max_virtual_time |-> mvt1, strokes |-> strs]
                      ELSE [raised |-> FALSE, virtual_time |-> vt1,
                            max_virtual_time |-> mvt1,
                            strokes |-> [i \in DOMAIN entries |->
                                            StrokeOfEntry(entries[i])]]

\* Sample documents read from disk.
SamplePoints == <<<<10, 10, 1>>, <<20, 10, 1>>>>
EntryFull(t, a) == JsonEntry(EntryKeys, SamplePoints, STROKE_WIDTH, STROKE_COLOR, t, a)
EntryWithout(key, t) ==
    JsonEntry(EntryKeys \ {key}, SamplePoints, STROKE_WIDTH, STROKE_COLOR, t, ONE)

DocUnparsable == JsonDoc(FALSE, {}, 0, <<>>)
DocBranch ==
    JsonDoc(TRUE, {"virtual_time", "strokes"}, 0,
            <<EntryWithout("base_alpha", 3000), EntryFull(0, 0)>>)
DocNoTime ==
    JsonDoc(TRUE, {"virtual_time", "strokes"}, 18000,
            <<EntryWithout("time_created", 0)>>)
DocNoPoints ==
    JsonDoc(TRUE, {"virtual_time", "strokes"}, 18000,
            <<EntryFull(0, ONE), EntryWithout("points", 72000)>>)
DocNegative == JsonDoc(TRUE, {"virtual_time", "strokes"}, -3000, <<>>)
\* A file saved at 0 s whose only entry, created at 0 s, has no "points".
DocStale ==
    JsonDoc(TRUE, {"virtual_time", "strokes"}, 0,
            <<EntryWithout("points", 0)>>)
SampleDocs == {DocUnparsable, DocBranch, DocNoTime, DocNoPoints, DocNegative}

\* MainWindow.export_strokes: writes the document to the chosen file.
export_strokes ==
    /\ update_timeline_history(strokes)
    /\ last_op' = "export_strokes"
    /\ last_arg' = NoArg
    /\ UNCHANGED <<canvas_vars, ctl_params, window_vars>>

\* MainWindow.import_strokes: reads the chosen file and imports it; when
\* import_strokes_json raises, the rest of the handler is skipped.
import_strokes(doc) ==
    LET r == import_strokes_json(doc, virtual_time, max_virtual_time, strokes)
    IN  /\ virtual_time' = r.virtual_time
        /\ max_virtual_time' = r.max_virtual_time
        /\ strokes' = r.strokes
        /\ IF r.raised
           THEN UNCHANGED timeline_vars
           ELSE update_timeline_history(r.strokes)
        /\ last_op' = "import_strokes"
        /\ last_arg' = [kind |-> "import", json |-> doc, raised |-> r.raised,
                        max_before |-> max_virtual_time]
        /\ UNCHANGED <<current_points, last_virtual_time, lambdas_factor, lambdas_twin,
                       timer_active, left_down>>
        /\ UNCHANGED <<ctl_params, window_vars>>

(***************************************************************************)
(* The program: every handler, with its inputs drawn from the given sets.  *)
(* The bounds stop new strokes, points and timer ticks; a timer may tick   *)
(* only within MaxTicks ticks of a slider grid position.                   *)
(***************************************************************************)
TickAllowed(t) == (t % SLIDER_STEP) < MaxTicks * TICK

Press(P, n) == Len(strokes) < n /\ \E p \in P : mousePressEvent(p)
Move(P) == Len(current_points) < MaxPoints /\ \E p \in P : mouseMoveEvent(p)
Release == mouseReleaseEvent
DrawTick == TickAllowed(virtual_time) /\ advance_virtual_time
Paint(D) == \E d \in D : paintEvent(d)
Seek(V) == \E v \in V : on_timeline_slider(v)
PlayClick == on_play_clicked
PlayTick ==
    /\ virtual_time + TICK >= max_virtual_time \/ TickAllowed(virtual_time)
    /\ advance_timeline
Key(K) == \E key \in K : keyPressEvent(key)
ChaosPad(X, W) == \E x \in X, w \in W : handle_chaos_pad(x, w)
Export == export_strokes
\* The file read is one of the given documents or the file export_strokes
\* would write for the present state.
Import(Docs) ==
    \E doc \in Docs \cup {export_strokes_json(virtual_time, strokes)} :
        import_strokes(doc)

\* The file read is one of the given documents.
ImportFile(Docs) == \E doc \in Docs : import_strokes(doc)

P0 == <<10, 10, 1>>
P1 == <<20, 10, 1>>

Next ==
    \/ Press({P0}, MaxStrokes)
    \/ Move({P0, P1})
    \/ Release
    \/ DrawTick
    \/ Paint({0, 60, 1000})
    \/ Seek({0, 6, 24})
    \/ PlayClick
    \/ PlayTick
    \/ now_button
    \/ Key(Keys)
    \/ keyReleaseEvent
    \/ ChaosPad({-1, 0, 6}, {100})
    \/ Export
    \/ Import(SampleDocs)

Spec == Init /\ [][Next]_vars

(***************************************************************************)
(* Scenarios: the program with only some of the user's actions, which     *)
(* keeps each state space small enough to explore in full.                *)
(***************************************************************************)
\* Drawing, frames, scrubbing and clear.
NextCanvas ==
    \/ Press({P0}, MaxStrokes)
    \/ Move({P1})
    \/ Release
    \/ DrawTick
    \/ Paint({0, 60, 1000})
    \/ Seek({0, 6, 24})
    \/ Key({"C", "N"})

SpecCanvas == Init /\ [][NextCanvas]_vars

\* Drawing, playback and scrubbing.
NextTimers ==
    \/ Press({P0}, MaxDrawn)
    \/ Move({P1})
    \/ Release
    \/ DrawTick
    \/ Seek({0, 1})
    \/ PlayClick
    \/ PlayTick
    \/ now_button

SpecTimers == Init /\ [][NextTimers]_vars

\* Drawing, frames, scrubbing, export and import.
NextIO ==
    \/ Press({P0}, MaxStrokes)
    \/ Move({P1})
    \/ Release
    \/ Paint({60, 1000})
    \/ Seek({0, 6})
    \/ Export
    \/ Import(SampleDocs)

SpecIO == Init /\ [][NextIO]_vars

\* Every way a frame can be reached: commits, frames, scrubbing, playback,
\* clear and import of a file with a later and an earlier stroke.
NextFrames ==
    \/ Press({P0}, MaxStrokes)
    \/ Move({P1})
    \/ Release
    \/ Paint({60, 1000})
    \/ Seek({0, 1, 7})
    \/ PlayClick
    \/ PlayTick
    \/ Key({"C"})
    \/ ImportFile({DocBranch})

SpecFrames == Init /\ [][NextFrames]_vars

\* Everything that is neither clear nor import: commits, the drawing clock,
\* frames, scrubbing, playback and jump-to-now.
NextStore ==
    \/ Press({P0}, MaxStrokes)
    \/ Move({P1})
    \/ Release
    \/ DrawTick
    \/ Paint({60, 1000})
    \/ Seek({0, 6})
    \/ PlayClick
    \/ PlayTick
    \/ now_button

SpecStore == Init /\ [][NextStore]_vars

\* Every writer of virtual_time: the drawing clock (started by a press),
\* playback, the slider, the chaos pad (pointer inside and left of the
\* widget), import, jump-to-now and clear.  The strokes come from the files.
NextScrub ==
    \/ Press({P0}, MaxStrokes)
    \/ Release
    \/ DrawTick
    \/ Seek({0, 6})
    \/ PlayClick
    \/ PlayTick
    \/ Key(Keys)
    \/ keyReleaseEvent
    \/ ChaosPad({-1, 0, 6}, {0, 100})
    \/ ImportFile({DocBranch, DocNegative})

SpecScrub == Init /\ [][NextScrub]_vars

\* Frames over every kind of store: empty, strokes without length, strokes
\* created later than the frame, retired strokes; the coverage read back may
\* lie outside [0, 1] before it is clipped.
NextDensity ==
    \/ Press({P0}, MaxStrokes)
    \/ Move({P0, P1})
    \/ Release
    \/ Paint({-100, 60, 1500})
    \/ Seek({0, 6})
    \/ ImportFile({DocBranch})

SpecDensity == Init /\ [][NextDensity]_vars

\* Frames at many ages of a stroke: drawing, frames and the slider at 0, 3,
\* 18 and 72 s.
NextDecay ==
    \/ Press({P0}, MaxStrokes)
    \/ Move({P1})
    \/ Release
    \/ Paint({0, 60, 1000})
    \/ Seek({0, 1, 6, 24})

SpecDecay == Init /\ [][NextDecay]_vars

\* The writers of max_virtual_time next to handlers that leave it alone:
\* commits, clear and import; frames, the slider, playback and jump-to-now.
NextMark ==
    \/ Press({P0}, MaxStrokes)
    \/ Move({P1})
    \/ Release
    \/ Paint({1000})
    \/ Seek({0, 6})
    \/ PlayClick
    \/ PlayTick
    \/ now_button
    \/ Key({"C"})
    \/ ImportFile({DocBranch, DocStale})

SpecMark == Init /\ [][NextMark]_vars

\* Playback left alone: the store and the clock are set up while the
\* playback timer is stopped; once the Play button has started it, only its
\* own ticks happen.  The playback QTimer fires every 33 ms for as long as
\* it is active, hence weak fairness of its handler.
NextPlay ==
    \/ ~play_timer_active /\ Press({P0}, MaxStrokes)
    \/ ~play_timer_active /\ Move({P1})
    \/ ~play_timer_active /\ Release
    \/ ~play_timer_active /\ DrawTick
    \/ ~play_timer_active /\ Seek({0})
    \/ ~play_timer_active /\ ImportFile({DocBranch})
    \/ ~play_timer_active /\ PlayClick
    \/ advance_timeline

SpecPlay == Init /\ [][NextPlay]_vars /\ WF_vars(advance_timeline)

\* calc_segments on any list of creation times.
SegTimes == {1, 2, 3}
SegInputs == UNION {[1..n -> SegTimes] : n \in 0..MaxSegLen}

SetStrokeTimes ==
    /\ \E times \in SegInputs : set_stroke_times(times)
    /\ last_op' = "set_stroke_times"
    /\ last_arg' = NoArg
    /\ UNCHANGED <<canvas_vars, ctl_params, window_vars>>

NextSeg == SetStrokeTimes

SpecSeg == Init /\ [][NextSeg]_vars

\* The controller under any configuration of target_density, hysteresis and
\* lambda_k, fed density samples by frames of a canvas that holds a stroke.
CtlTargets == {0, 50, 500, 1000}
CtlHystereses == {0, 20}
CtlGains == {1000, 3000, 5000}

InitCtl ==
    /\ InitCanvas
    /\ InitWindow
    /\ InitTimeline
    /\ lambdas_factor = ONE
    /\ lambdas_twin = ONE
    /\ target_density \in CtlTargets
    /\ hysteresis \in CtlHystereses
    /\ lambda_k \in CtlGains
    /\ last_op = "init"
    /\ last_arg = NoArg

NextCtl ==
    \/ Press({P0}, MaxStrokes)
    \/ Move({P1})
    \/ Release
    \/ Paint({0, 60, 500, 1000})

SpecCtl == InitCtl /\ [][NextCtl]_vars

\* Two runs of the controller under the same configuration and the same
\* density samples; the second starts from another lambdas_factor, one that
\* an earlier frame can have left behind.
TwinStarts == {100, 850, 3850, 4000}

InitTwin ==
    /\ InitCanvas
    /\ InitWindow
    /\ InitTimeline
    /\ lambdas_factor = ONE
    /\ lambdas_twin \in TwinStarts
    /\ target_density \in CtlTargets
    /\ hysteresis \in CtlHystereses
    /\ lambda_k \in CtlGains
    /\ last_op = "init"
    /\ last_arg = NoArg

SpecTwin == InitTwin /\ [][NextCtl]_vars

(***************************************************************************)
(* Claims                                                                  *)
(***************************************************************************)

\* C1 (SpecCanvas): rewind restores visibility.  A frame painted with
\* virtual_time equal to the creation time of a stroke that was retired
\* before the frame leaves that stroke with alpha 1.0 and not retired.
C1_RewindRestores ==
    last_op = "paintEvent" =>
        \A i \in last_arg.retired :
            virtual_time = strokes[i].time_created =>
                strokes[i].base_alpha = 1000 /\ strokes[i].is_visible

\* A frame has just resurrected a retired stroke at its creation time.
C1_Witness ==
    /\ last_op = "paintEvent"
    /\ \E i \in last_arg.retired :
          /\ virtual_time = strokes[i].time_created
          /\ strokes[i].base_alpha = 1000
          /\ strokes[i].is_visible

\* C2 (SpecIO): a failing import is atomic.  When import_strokes_json raises,
\* virtual_time, max_virtual_time and the stroke list are what they were
\* before the import.
C2_FailedImportAtomic ==
    [][(last_op' = "import_strokes" /\ last_arg'.raised) =>
          /\ virtual_time' = virtual_time
          /\ max_virtual_time' = max_virtual_time
          /\ strokes' = strokes]_vars

\* C3 (SpecTimers): the playback timer and the free-hand drawing timer are
\* never both active.
C3_SingleWriter == ~(timer_active /\ play_timer_active)

\* C4 (SpecTimers): no playback tick sets virtual_time to a smaller value
\* than it had before the tick.
C4_PlaybackMonotone ==
    [][last_op' = "advance_timeline" => virtual_time' >= virtual_time]_vars

\* C5 (SpecCanvas): clear-all leaves the stroke list empty, virtual_time = 0,
\* max_virtual_time = 0 and the in-progress stroke empty.
C5_ClearAll ==
    (last_op = "keyPressEvent" /\ last_arg.key = "C" /\ ~last_arg.ignored) =>
        /\ strokes = <<>>
        /\ current_points = <<>>
        /\ virtual_time = 0
        /\ max_virtual_time = 0

\* Clear-all has just run on a canvas that held strokes and a high-water mark.
C5_Witness ==
    /\ last_op = "keyPressEvent" /\ last_arg.key = "C" /\ ~last_arg.ignored
    /\ last_arg.nstrokes > 0
    /\ last_arg.max_before > 0
    /\ strokes = <<>>
    /\ max_virtual_time = 0

\* C6 (SpecTimers): a pointer-up with at least 2 accumulated points appends
\* exactly one stroke at the end of the list, created at the virtual_time of
\* the pointer-up and holding the accumulated points in order; with fewer
\* points the stroke list, virtual_time and max_virtual_time are unchanged.
C6_Commit ==
    [][last_op' = "mouseReleaseEvent" =>
          IF Len(current_points) >= 2
          THEN /\ Len(strokes') = Len(strokes) + 1
               /\ SubSeq(strokes', 1, Len(strokes)) = strokes
               /\ strokes'[Len(strokes')].time_created = virtual_time
               /\ strokes'[Len(strokes')].points = current_points
          ELSE /\ strokes' = strokes
               /\ virtual_time' = virtual_time
               /\ max_virtual_time' = max_virtual_time]_vars

\* A pointer-up has just committed a second stroke at a positive time.
C6_Witness ==
    /\ last_op = "mouseReleaseEvent"
    /\ last_arg.npoints >= 2
    /\ Len(strokes) >= 2
    /\ virtual_time > 0
    /\ strokes[Len(strokes)].time_created = virtual_time
    /\ Len(strokes[Len(strokes)].points) = last_arg.npoints

\* C7 (SpecIO): round trip.  Importing the document export writes for the
\* present state is accepted and yields the same virtual_time and a stroke
\* list of the same length with the same points, width, color and creation
\* time at every index.
C7_RoundTrip ==
    [][(/\ last_op' = "import_strokes"
        /\ last_arg'.json = export_strokes_json(virtual_time, strokes)) =>
          /\ ~last_arg'.raised
          /\ virtual_time' = virtual_time
          /\ Len(strokes') = Len(strokes)
          /\ \A i \in DOMAIN strokes :
                /\ strokes'[i].points = strokes[i].points
                /\ strokes'[i].width = strokes[i].width
                /\ strokes'[i].color = strokes[i].color
                /\ strokes'[i].time_created = strokes[i].time_created]_vars

\* An exported document with out-of-order creation times has just been
\* imported.
C7_Witness ==
    /\ last_op = "import_strokes"
    /\ ~last_arg.raised
    /\ last_arg.json = export_strokes_json(virtual_time, strokes)
    /\ Len(strokes) >= 2
    /\ \E i \in 1..(Len(strokes) - 1) :
          strokes[i + 1].time_created < strokes[i].time_created

\* C8 (SpecIO): after a successful import max_virtual_time is the maximum of
\* the stored virtual_time and the creation times of all imported strokes,
\* whatever it was before; an entry without base_alpha gives a stroke with
\* alpha 1.0.
C8_ImportMax ==
    (last_op = "import_strokes" /\ ~last_arg.raised) =>
        /\ max_virtual_time =
              SetMax({virtual_time} \cup
                     {strokes[i].time_created : i \in DOMAIN strokes})
        /\ \A i \in DOMAIN strokes :
              "base_alpha" \notin last_arg.json.strokes[i].keys =>
                  strokes[i].base_alpha = 1000

\* C9 (SpecSeg): calc_segments partitions the indices 0..n-1 into contiguous
\* in-order segments, non-decreasing inside; a segment starts at i > 0
\* exactly when times[i] < times[i-1]; there are 1 + (number of strict
\* descents) segments, none for the empty list, and [1,2,3,1,2] gives
\* {0,1,2} and {3,4}.
C9_Segments ==
    LET times == stroke_times
        segs  == segment_indices
        n     == Len(times)
        \* the code's 0-based times[i]
        T(i)  == times[i + 1]
        Starts == {segs[k][1] : k \in DOMAIN segs}
        Descents == {i \in 1..(n - 1) : T(i) < T(i - 1)}
    IN  /\ n = 0 => segs = <<>>
        /\ n > 0 =>
              /\ segs /= <<>>
              /\ \A k \in DOMAIN segs : segs[k] /= <<>>
              /\ segs[1][1] = 0
              /\ segs[Len(segs)][Len(segs[Len(segs)])] = n - 1
              /\ \A k \in DOMAIN segs : \A j \in 1..(Len(segs[k]) - 1) :
                    /\ segs[k][j + 1] = segs[k][j] + 1
                    /\ T(segs[k][j + 1]) >= T(segs[k][j])
              /\ \A k \in 1..(Len(segs) - 1) :
                    segs[k + 1][1] = segs[k][Len(segs[k])] + 1
              /\ Starts \ {0} = Descents
              /\ Len(segs) = 1 + Cardinality(Descents)
        /\ times = <<1, 2, 3, 1, 2>> => segs = <<<<0, 1, 2>>, <<3, 4>>>>

\* The times [1,2,3,1,2] have been segmented into {0,1,2} and {3,4}.
C9_Witness ==
    /\ last_op = "set_stroke_times"
    /\ stroke_times = <<1, 2, 3, 1, 2>>
    /\ segment_indices = <<<<0, 1, 2>>, <<3, 4>>>>

\* C10 (SpecCtl): lambda_factor always lies in [0.1, 4.0]; a frame whose raw
\* value 1 + gain_k * error is >= 4.0 yields exactly 4.0 and one whose raw
\* value is <= 0.1 yields exactly 0.1.
C10_Clamp ==
    /\ 100 <= lambdas_factor /\ lambdas_factor <= 4000
    /\ last_op = "paintEvent" =>
          LET error == last_arg.density - target_density
              raw   == 1000 + (lambda_k * error) \div 1000
          IN  /\ raw >= 4000 => lambdas_factor = 4000
              /\ raw <= 100 => lambdas_factor = 100

\* A frame with density 1.0 and target 0.0 whose raw value exceeds 4.0 has
\* produced exactly 4.0.
C10_Witness ==
    /\ last_op = "paintEvent"
    /\ last_arg.density = 1000
    /\ target_density = 0
    /\ lambda_k = 5000
    /\ lambdas_factor = 4000

\* C11 (SpecTwin): in a frame with |density - target_density| < hysteresis
\* lambda_factor is exactly 1.0 after the frame, whatever it was before;
\* otherwise it is 1 + gain_k * error, clamped to [0.1, 4.0].
C11_DeadZone ==
    [][last_op' = "paintEvent" =>
          LET error == last_arg'.density - target_density
              raw   == 1000 + (lambda_k * error) \div 1000
              after == IF Abs(error) < hysteresis THEN 1000
                       ELSE IF raw > 4000 THEN 4000
                       ELSE IF raw < 100 THEN 100 ELSE raw
          IN  lambdas_factor' = after /\ lambdas_twin' = after]_vars

\* A frame with target 0.05, hysteresis 0.02 and density 0.06 has set the
\* factor to 1.0 in both runs; the second run never started from 1.0.
C11_Witness ==
    /\ last_op = "paintEvent"
    /\ last_arg.density = 60
    /\ target_density = 50
    /\ hysteresis = 20
    /\ lambdas_factor = 1000
    /\ lambdas_twin = 1000

\* C12 (SpecTwin): the controller is memoryless.  Two runs fed the same
\* density samples under the same constants hold the same lambda_factor after
\* every frame, whatever factor each held before it.
C12_Memoryless == last_op = "paintEvent" => lambdas_factor = lambdas_twin

\* A frame outside the dead zone has brought two runs that started from
\* different factors to the same factor, which is not 1.0.
C12_Witness ==
    /\ last_op = "paintEvent"
    /\ lambdas_factor = lambdas_twin
    /\ lambdas_factor /= 1000
    /\ Abs(last_arg.density - target_density) >= hysteresis

\* C13 (SpecFrames): age zero means no decay.  After every painted frame,
\* a stroke whose creation time equals the frame's virtual_time has alpha
\* exactly 1.0 and is not retired.
C13_AgeZero ==
    last_op = "paintEvent" =>
        \A i \in DOMAIN strokes :
            strokes[i].time_created = virtual_time =>
                strokes[i].base_alpha = 1000 /\ strokes[i].is_visible

\* A frame has been painted at the creation time of the later of two strokes,
\* and the earlier one is faded or gone.
C13_Witness ==
    /\ last_op = "paintEvent"
    /\ virtual_time > 0
    /\ \E i, j \in DOMAIN strokes :
          /\ strokes[i].time_created = virtual_time
          /\ strokes[i].base_alpha = 1000
          /\ strokes[j].time_created < virtual_time
          /\ strokes[j].base_alpha < 1000

\* C14 (SpecFrames): after every painted frame, a stroke whose creation time
\* is greater than the frame's virtual_time has alpha 0 and is not retired.
C14_NotYetCreated ==
    last_op = "paintEvent" =>
        \A i \in DOMAIN strokes :
            strokes[i].time_created > virtual_time =>
                strokes[i].base_alpha = 0 /\ strokes[i].is_visible

\* A frame painted before the creation time of a stroke that was retired
\* before the frame has left it with alpha 0 and not retired.
C14_Witness ==
    /\ last_op = "paintEvent"
    /\ \E i \in last_arg.retired :
          /\ strokes[i].time_created > virtual_time
          /\ strokes[i].base_alpha = 0
          /\ strokes[i].is_visible

\* C15 (SpecScrub): virtual_time is non-negative in every reachable state.
C15_NonNegative == virtual_time >= 0

C17_Density ==
    [][last_op' = "paintEvent" =>
          LET rewind == virtual_time < last_virtual_time
              passes == {i \in DOMAIN strokes :
                            /\ strokes[i].is_visible \/ rewind
                            /\ strokes[i].time_created <= virtual_time
                            /\ Len(strokes[i].points) >= 2}
          IN  /\ 0 <= last_arg'.density
              /\ last_arg'.density <= 1000
              /\ passes = {} => last_arg'.density = 0]_vars

\* A frame over a store whose strokes are all created later than the frame
\* has used density 0, so the factor is 1 + 3.0 * (0 - 0.05) = 0.85.
C17_Witness ==
    /\ last_op = "paintEvent"
    /\ strokes /= <<>>
    /\ \A i \in DOMAIN strokes : strokes[i].time_created > virtual_time
    /\ last_arg.density = 0
    /\ lambdas_factor = 850

\* C18 (SpecTimers): jump-to-now sets virtual_time to exactly
\* max_virtual_time and leaves max_virtual_time and the stroke list unchanged.
C18_JumpToNow ==
    [][last_op' = "go_to_now" =>
          /\ virtual_time' = max_virtual_time
          /\ max_virtual_time' = max_virtual_time
          /\ strokes' = strokes]_vars

\* Jump-to-now has just brought virtual_time down to max_virtual_time on a
\* canvas that holds a stroke.
C18_Witness ==
    /\ last_op = "go_to_now"
    /\ last_arg.time_before > max_virtual_time
    /\ virtual_time = max_virtual_time
    /\ max_virtual_time > 0
    /\ strokes /= <<>>

\* C19 (SpecDecay): decay is monotone non-increasing in age for a fixed
\* lambda_factor.  With the factor of the frame just painted, the alpha the
\* frame assigns to a non-retired stroke (exp(-lambda_base * factor * age),
\* 0 below the 0.001 floor) never grows from one age to a greater one: along
\* the ages 0, 0.5, 1.0, ... 90 s, and between each of them and the age of
\* every stroke the frame has just decayed.
C19_Monotone ==
    last_op = "paintEvent" =>
        LET probe(age) ==
                DecayStroke(Stroke(<<P0, P1>>, STROKE_WIDTH, STROKE_COLOR, 0, ONE),
                            age, lambdas_factor).base_alpha
            Ages == {500 * n : n \in 0..180}
        IN  /\ \A a \in Ages : probe(a) >= probe(a + 500)
            /\ \A i \in DOMAIN strokes :
                  LET age == virtual_time - strokes[i].time_created
                  IN  (strokes[i].is_visible /\ age >= 0) =>
                          /\ strokes[i].base_alpha = probe(age)
                          /\ \A a \in Ages :
                                /\ a <= age => probe(a) >= strokes[i].base_alpha
                                /\ a >= age => probe(a) <= strokes[i].base_alpha

\* A frame has left a stroke of age 18 s partly faded, under a factor for
\* which a stroke of age 72 s is below the floor.
C19_Witness ==
    /\ last_op = "paintEvent"
    /\ \E i \in DOMAIN strokes :
          /\ virtual_time - strokes[i].time_created = 18000
          /\ strokes[i].is_visible
          /\ 0 < strokes[i].base_alpha
          /\ strokes[i].base_alpha < 1000
    /\ DecayAlpha(lambdas_factor, 72000) < ALPHA_FLOOR

\* C20 (SpecTimers): after every pointer-up, committed or discarded, the
\* drawing timer is stopped and the in-progress point list is empty.
C20_ClockStops ==
    last_op = "mouseReleaseEvent" =>
        ~timer_active /\ current_points = <<>>

\* What a frame at virtual time now, under decay factor factor, makes of a
\* stroke created at created when it looks at nothing else: alpha 0 and
\* visible before its creation, retired with alpha 0 below the floor, the
\* exponential otherwise.
C21_Fresh(s, now, factor) ==
    LET age == now - s.time_created
    IN  IF age < 0 THEN s.base_alpha = 0 /\ s.is_visible
        ELSE IF DecayAlpha(factor, age) < ALPHA_FLOOR
             THEN s.base_alpha = 0 /\ ~s.is_visible
             ELSE s.base_alpha = DecayAlpha(factor, age) /\ s.is_visible

\* C21 as stated (SpecDecay): after every painted frame each stroke's alpha
\* and retired flag are a function only of that frame's virtual_time, the
\* stroke's creation_time and that frame's decay factor; a stroke is retired
\* after a frame only if the exponential for that frame is below the floor.
C21_NoRatchet ==
    last_op = "paintEvent" =>
        \A i \in DOMAIN strokes :
            C21_Fresh(strokes[i], virtual_time, lambdas_factor)

\* C21 amended (SpecDecay): a frame leaves a stroke that was retired before
\* it retired with alpha 0, whatever the frame's decay factor, unless the
\* frame observes a rewind; every other stroke's alpha and retired flag are
\* the function of the frame's virtual_time, the creation_time and the
\* frame's decay factor.
C21_Forgetting ==
    [][last_op' = "paintEvent" =>
          \A i \in DOMAIN strokes' :
              LET kept == /\ i \in DOMAIN strokes
                          /\ ~strokes[i].is_visible
                          /\ ~(virtual_time < last_virtual_time)
              IN  IF kept
                  THEN ~strokes'[i].is_visible /\ strokes'[i].base_alpha = 0
                  ELSE C21_Fresh(strokes'[i], virtual_time', lambdas_factor')
      ]_vars

\* A frame has left a stroke retired although the exponential under that
\* frame's factor is above the floor: the stroke was retired by an earlier
\* frame under a larger factor and time has not moved back since.
C21_Witness ==
    /\ last_op = "paintEvent"
    /\ \E i \in DOMAIN strokes :
          /\ i \in last_arg.retired
          /\ ~strokes[i].is_visible
          /\ virtual_time - strokes[i].time_created >= 0
          /\ DecayAlpha(lambdas_factor, virtual_time - strokes[i].time_created)
                 >= ALPHA_FLOOR

\* C22 (SpecFrames): a retired stroke has alpha exactly 0; it stays as it is,
\* retired with alpha 0, through every step but a frame that observes
\* virtual_time smaller than at the previous frame, a clear and an import;
\* a frame without a rewind that finds every stroke retired estimates
\* density 0.
C22_Sticky ==
    [][/\ \A i \in DOMAIN strokes' :
              ~strokes'[i].is_visible => strokes'[i].base_alpha = 0
       /\ \A i \in RetiredSet(strokes) :
              LET rewound  == /\ last_op' = "paintEvent"
                              /\ virtual_time < last_virtual_time
                  replaced == \/ last_op' = "import_strokes"
                              \/ /\ last_op' = "keyPressEvent"
                                 /\ last_arg'.key = "C"
              IN  ~(rewound \/ replaced) =>
                      /\ i \in DOMAIN strokes'
                      /\ strokes'[i] = strokes[i]
       /\ (/\ last_op' = "paintEvent"
           /\ ~(virtual_time < last_virtual_time)
           /\ RetiredSet(strokes) = DOMAIN strokes) =>
              last_arg'.density = 0
      ]_vars

\* A frame at the frontier, 21 s after a stroke's creation, has found the
\* stroke retired and left it retired with alpha 0 and out of the density
\* estimate, under a factor for which an age of 21 s is above the floor.
C22_Witness ==
    /\ last_op = "paintEvent"
    /\ last_arg.density = 0
    /\ virtual_time = last_virtual_time
    /\ \E i \in DOMAIN strokes :
          /\ i \in last_arg.retired
          /\ ~strokes[i].is_visible
          /\ strokes[i].base_alpha = 0
          /\ virtual_time - strokes[i].time_created = 21000
          /\ DecayAlpha(lambdas_factor, 21000) >= ALPHA_FLOOR

\* C23 (SpecPlay): once playback is started and nothing but its ticks
\* happens, the playback timer eventually stops; it is stopped by a tick,
\* and at that moment virtual_time = max_virtual_time; after every playback
\* tick virtual_time <= max_virtual_time.
C23_Terminates ==
    /\ play_timer_active ~> ~play_timer_active
    /\ [][((play_timer_active /\ ~play_timer_active') =>
               (last_op' = "advance_timeline" /\
                virtual_time' = max_virtual_time'))
          /\ (last_op' = "advance_timeline" =>
                 virtual_time' <= max_virtual_time')]_vars

\* Playback has stopped by itself at the frontier of an imported file, 3 s,
\* which the clock reaches from the import's 0 s only by ninety-one ticks.
C23_Witness ==
    /\ last_op = "advance_timeline"
    /\ ~play_timer_active
    /\ ~play_checked
    /\ virtual_time = 3000
    /\ max_virtual_time = 3000
    /\ Len(strokes) = 2

\* C24 (SpecMark): after every step max_virtual_time is >= the creation time
\* of every stroke in the store; a commit raises it to the commit time when
\* that exceeds it; it is changed by no step but a commit, an import and a
\* clear.
C24_HighWater ==
    [][LET commit == /\ last_op' = "mouseReleaseEvent"
                     /\ Len(strokes') = Len(strokes) + 1
       IN  /\ \A i \in DOMAIN strokes' :
                 max_virtual_time' >= strokes'[i].time_created
           /\ commit => max_virtual_time' = Max2(max_virtual_time, virtual_time)
           /\ max_virtual_time' # max_virtual_time =>
                 \/ commit
                 \/ last_op' = "import_strokes"
                 \/ last_op' = "keyPressEvent" /\ last_arg'.key = "C"
      ]_vars

====
